---- MODULE Spec2Model ----
(***************************************************************************)
(* A model of the VM-MAD orchestrator simulation                           *)
(* (vmmad/simul.py: OrchestratorSimulation), of the `Struct` attribute bag  *)
(* it builds its records from (vmmad/util.py) and of the `VmInfo`          *)
(* constructor exercised by vmmad/test/test_vminfo.py.                     *)
(*                                                                         *)
(* The base class `Orchestrator` (its `run` loop, `update_job_status`,     *)
(* `new_vm`, `vm_is_ready`), the `DummyCloud` provider and the             *)
(* `JobsFromFile` batch system are imported by simul.py but are not part   *)
(* of the sources at hand: what the model needs of them follows            *)
(* spec.md sections 3, 4 and 6 and is marked "spec-modelled" below.        *)
(***************************************************************************)
EXTENDS Integers, Sequences, FiniteSets, TLC

\* ------------------------------------------------------------------------
\* Bounds of the model
\* ------------------------------------------------------------------------
NumJobs == 3          \* jobs in the replayed trace: ids 1..NumJobs
MaxVmsBound == 2      \* --max-vms ranges over 1..MaxVmsBound
MaxClusterSize == 2   \* --cluster-size ranges over 0..MaxClusterSize
MaxStartupDelay == 2  \* --startup-delay ranges over 1..MaxStartupDelay
MaxCycle == 7         \* cycles of the run that are explored
MaxPairs == 2         \* longest (name, value) list given to a constructor
MaxStartTimeout == 2  \* start timeouts tried in the run with timeouts: 1..MaxStartTimeout

StartTimeoutFloor == 10     \* the 10 of max(startup_delay, 10)

MaxDeltaChoices == {1, 2}   \* values of --max-delta
MaxIdleChoices == {0, 1}    \* values of --max-idle

JobIds == 1..NumJobs

VARIABLES
  max_vms,        \* Orchestrator.max_vms        (configuration)
  max_delta,      \* Orchestrator.max_delta      (configuration)
  max_idle,       \* self.max_idle               (configuration)
  startup_delay,  \* self.startup_delay          (configuration)
  cluster_size,   \* self.cluster_size           (configuration)
  vm_start_timeout, \* Orchestrator.vm_start_timeout, in cycles (configuration)
  vms,            \* self.vms: vmid -> VM record
  jobs,           \* self.jobs: jobid -> job record
  candidates,     \* self.candidates: list of job ids, popped from the end
  cycle,          \* self.cycle
  pc,             \* position of the run loop inside a cycle
  started,        \* VMs started so far in the current cycle
  stopped,        \* VMs stopped so far in the current cycle
  batchsys,       \* the batch system's own view: jobid -> reported state
  stop_requests,  \* vmids whose stop was requested in the current cycle
  cloud_stops,    \* vmids the cloud provider was actually told to stop
  last_error,     \* outcome of the last checked operation
  args,           \* arguments of a record construction: <<initializer, kw>>
  built           \* the record a construction produced

config == <<max_vms, max_delta, max_idle, startup_delay, cluster_size, vm_start_timeout>>
api == <<last_error, args, built>>
vars == <<max_vms, max_delta, max_idle, startup_delay, cluster_size, vm_start_timeout, vms, jobs,
          candidates, cycle, pc, started, stopped, batchsys, stop_requests,
          cloud_stops, last_error, args, built>>

Min(a, b) == IF a < b THEN a ELSE b
Max(a, b) == IF a > b THEN a ELSE b

\* All orders in which a dict's values can be listed.
Orders(S) ==
  {s \in [1..Cardinality(S) -> S] : \A i, j \in 1..Cardinality(S) : s[i] = s[j] => i = j}

\* ------------------------------------------------------------------------
\* vmmad/util.py: Struct, and the VmInfo record built on it
\* ------------------------------------------------------------------------
AttrNames == {"vmid", "state", "nodename"}
AttrValues == {1, 2}
NoKw == [n \in {} |-> 0]

\* Struct.__setitem__: self.__dict__[name] = val
SetItem(d, name, val) == [n \in (DOMAIN d) \cup {name} |-> IF n = name THEN val ELSE d[n]]

\* the `for name, value in initializer: self[name] = value` loop
RECURSIVE SetPairs(_, _)
SetPairs(d, pairs) ==
  IF pairs = <<>> THEN d
  ELSE SetPairs(SetItem(d, Head(pairs)[1], Head(pairs)[2]), Tail(pairs))

\* Struct.__init__(initializer, **kw).  An initializer is None, dict-like
\* (it has `.items()`) or a sequence of (name, value) pairs; the keyword
\* arguments are set last and so override the initializer.
StructInit(initializer, kw) ==
  LET fromInit ==
        CASE initializer.kind = "none"  -> NoKw
          [] initializer.kind = "dict"  -> initializer.dict
          [] initializer.kind = "pairs" -> SetPairs(NoKw, initializer.pairs)
  IN [n \in (DOMAIN fromInit) \cup (DOMAIN kw) |->
        IF n \in DOMAIN kw THEN kw[n] ELSE fromInit[n]]

\* VmInfo.__init__ (spec-modelled): a Struct that asserts `vmid` is set.
VmInfoNoCheck(initializer, kw) ==
  [raised |-> "none", value |-> StructInit(initializer, kw)]

VmInfo(initializer, kw) ==
  LET self == StructInit(initializer, kw)
  IN IF "vmid" \in DOMAIN self
       THEN [raised |-> "none", value |-> self]
       ELSE [raised |-> "AssertionError", value |-> NoKw]

\* ------------------------------------------------------------------------
\* Records of the orchestrator
\* ------------------------------------------------------------------------
NoNode == <<"", 0>>
ClusterNodeId(n) == <<"clusternode", n>>     \* 'clusternode-%d' % n
VmNodeName(vmid) == <<"vm", vmid[2]>>        \* "vm-%s" % vm.vmid
CloudVmIds == {<<"vmid", n>> : n \in 1..(MaxVmsBound + 1)}

\* Orchestrator.new_vm (spec-modelled): a VmInfo with the given id, in
\* state STARTING with no jobs unless the attributes say otherwise.
\* `passes` is the number of update_job_status passes the record has been
\* through, which is the number of cycles since it was started.
OrchestratorNewVm(vmid, attrs) ==
  attrs @@ [vmid |-> vmid, state |-> "STARTING", nodename |-> NoNode,
            jobs |-> {}, last_idle |-> 0, ever_running |-> FALSE, passes |-> 0]

\* a variant that passes the state the cluster nodes are given
SimNewVmReady(vmid, delay) ==
  OrchestratorNewVm(vmid, [state |-> "READY", ever_running |-> FALSE,
                           last_idle |-> 0 - delay])

\* OrchestratorSimulation.new_vm: the keyword arguments are dropped
SimNewVm(vmid, delay) ==
  OrchestratorNewVm(vmid, [ever_running |-> FALSE, last_idle |-> 0 - delay])

\* the nodes made available at start: for n in xrange(cluster_size)
ClusterNodesOffByOne(size) == {ClusterNodeId(n) : n \in 0..size}

ClusterNodes(size) == {ClusterNodeId(n) : n \in 0..(size - 1)}

ClusterVm(nodeid) ==
  OrchestratorNewVm(nodeid, [state |-> "READY", nodename |-> nodeid, ever_running |-> TRUE])

\* vm_start_timeout=time_interval*max(startup_delay, 10): in cycles, that
\* is in units of time_interval
SimStartTimeout(delay) == Max(delay, StartTimeoutFloor)

\* ------------------------------------------------------------------------
\* Policy
\* ------------------------------------------------------------------------
is_cloud_candidate(job) == TRUE

is_new_vm_needed_always(cands, table) == TRUE

is_new_vm_needed_at_least(cands, table) == Len(cands) >= 2 * Cardinality(DOMAIN table)

is_new_vm_needed(cands, table) == Len(cands) > 2 * Cardinality(DOMAIN table)

can_vm_be_stopped_any(vm, maxIdle) ==
  (vm.last_idle > maxIdle) /\ Cardinality(vm.jobs) = 0

can_vm_be_stopped_at(vm, maxIdle) ==
  (~vm.ever_running) /\ (vm.last_idle >= maxIdle) /\ Cardinality(vm.jobs) = 0

can_vm_be_stopped_busy(vm, maxIdle) ==
  (~vm.ever_running) /\ (vm.last_idle > maxIdle)

can_vm_be_stopped(vm, maxIdle) ==
  (~vm.ever_running) /\ (vm.last_idle > maxIdle) /\ Cardinality(vm.jobs) = 0

\* ------------------------------------------------------------------------
\* (fake) cloud provider
\* ------------------------------------------------------------------------
\* stop_vm: the assertion, then DummyCloud.stop_vm, then `return True`
stop_vm_unchecked(vm) == [raised |-> "none", told_cloud |-> TRUE, result |-> TRUE]

stop_vm(vm) ==
  IF vm.ever_running
    THEN [raised |-> "AssertionError", told_cloud |-> FALSE, result |-> FALSE]
    ELSE [raised |-> "none", told_cloud |-> TRUE, result |-> TRUE]

\* vm_is_ready (spec-modelled): STARTING -> READY, idle counter cleared
vm_is_ready(vm, nodename) ==
  [vm EXCEPT !.state = "READY", !.nodename = nodename, !.last_idle = 0]

\* ------------------------------------------------------------------------
\* Batch system (JobsFromFile, spec-modelled): every job of the trace is
\* FUTURE until submitted, is then reported PENDING until it has finished
\* (also while the orchestrator already has it RUNNING), is reported DONE
\* once and has disappeared from the next report on.
\* ------------------------------------------------------------------------
future_jobs(bs) == {j \in JobIds : bs[j] = "FUTURE"}

\* The report of the next poll: the `n` earliest future jobs have been
\* submitted, the jobs in `finished` have ended.
BatchSysAdvance(bs, n, finished) ==
  LET fut == future_jobs(bs)
      submitted == {j \in fut : Cardinality({i \in fut : i < j}) < n}
  IN [j \in JobIds |->
        CASE j \in submitted     -> "PENDING"
          [] j \in finished      -> "DONE"
          [] bs[j] = "DONE"      -> "GONE"
          [] OTHER               -> bs[j]]

Rank(st) == CASE st = "PENDING" -> 0 [] st = "RUNNING" -> 1 [] st = "DONE" -> 2

\* ------------------------------------------------------------------------
\* Orchestrator.update_job_status (spec-modelled: spec.md 4.1 step 2, 4.3)
\* ------------------------------------------------------------------------
\* merge the report into the job table; a state only ever advances
MergeJobs(table, bs) ==
  [j \in {i \in JobIds : bs[i] \in {"PENDING", "DONE"}} |->
     IF j \in DOMAIN table
       THEN [table[j] EXCEPT !.state = IF Rank(bs[j]) > Rank(@) THEN bs[j] ELSE @]
       ELSE [state |-> bs[j], exec_node_name |-> NoNode]]

\* jobs that ended or disappeared no longer occupy their VM
ReleaseJobs(table, jobtable) ==
  [v \in DOMAIN table |->
     [table[v] EXCEPT !.jobs = {j \in @ : j \in DOMAIN jobtable /\ jobtable[j].state = "RUNNING"}]]

RECURSIVE SortedSeq(_)
SortedSeq(S) ==
  IF S = {} THEN <<>>
  ELSE LET m == CHOOSE x \in S : \A y \in S : y <= x
       IN Append(SortedSeq(S \ {m}), m)

\* candidates: the PENDING jobs the policy accepts, in submission order,
\* without those already sitting on a VM
Candidates(jobtable, table) ==
  SortedSeq({j \in DOMAIN jobtable :
               /\ jobtable[j].state = "PENDING"
               /\ is_cloud_candidate(jobtable[j])
               /\ \A v \in DOMAIN table : j \notin table[v].jobs})

\* ------------------------------------------------------------------------
\* OrchestratorSimulation.update_job_status
\* ------------------------------------------------------------------------
\* simulate 'ready' notification from VMs (lines 111-120)
Countdown(vm) ==
  IF vm.state # "STARTING" THEN vm
  ELSE IF vm.last_idle >= 0 THEN vm_is_ready(vm, VmNodeName(vm.vmid))
  ELSE [vm EXCEPT !.last_idle = @ + 1]

\* auxiliary: count the pass (saturating one above the startup delay)
CountPass(vm, delay) ==
  IF vm.ever_running THEN vm ELSE [vm EXCEPT !.passes = Min(@ + 1, delay + 1)]

\* `if not vm.jobs`
IsFreeAlways(vm) == TRUE

IsFree(vm) == vm.jobs = {}

\* `job = self.candidates.pop()`: what is left of the list
PopKeeps(c) == c

PopRest(c) == SubSeq(c, 1, Len(c) - 1)

\* simulate SGE scheduler starting a new job (lines 122-135); `order` is
\* the order in which self.vms.values() lists the READY VMs.  The time
\* stamp job.running_at is not modelled.
RECURSIVE DispatchLoopBreaks(_, _, _, _)
DispatchLoopBreaks(order, table, jobtable, cands) ==
  IF order = <<>> THEN [vms |-> table, jobs |-> jobtable, candidates |-> cands]
  ELSE LET v == Head(order) IN
    IF ~IsFree(table[v]) \/ cands = <<>>
      THEN [vms |-> table, jobs |-> jobtable, candidates |-> cands]
    ELSE LET job == cands[Len(cands)] IN
      DispatchLoopBreaks(Tail(order),
                         [table EXCEPT ![v].jobs = @ \cup {job}],
                         [jobtable EXCEPT ![job].state = "RUNNING",
                                          ![job].exec_node_name = table[v].nodename],
                         PopRest(cands))

RECURSIVE DispatchLoop(_, _, _, _)
DispatchLoop(order, table, jobtable, cands) ==
  IF order = <<>> THEN [vms |-> table, jobs |-> jobtable, candidates |-> cands]
  ELSE LET v == Head(order) IN
    IF ~IsFree(table[v]) THEN DispatchLoop(Tail(order), table, jobtable, cands)
    ELSE IF cands = <<>> THEN [vms |-> table, jobs |-> jobtable, candidates |-> cands]
    ELSE LET job == cands[Len(cands)] IN
      DispatchLoop(Tail(order),
                   [table EXCEPT ![v].jobs = @ \cup {job}],
                   [jobtable EXCEPT ![job].state = "RUNNING",
                                    ![job].exec_node_name = table[v].nodename],
                   PopRest(cands))

ReadyVms(table) == {v \in DOMAIN table : table[v].state = "READY"}

\* the state before the dispatch loop: the regular work, then the countdown
BeforeDispatch(table, jobtable, bs, delay) ==
  LET j1 == MergeJobs(jobtable, bs)
      v1 == ReleaseJobs(table, j1)
      c1 == Candidates(j1, v1)
      v2 == [v \in DOMAIN v1 |-> CountPass(Countdown(v1[v]), delay)]
  IN [vms |-> v2, jobs |-> j1, candidates |-> c1]

\* all results the whole method can have, one per listing order
UpdateJobStatus(table, jobtable, bs, delay) ==
  LET s == BeforeDispatch(table, jobtable, bs, delay)
  IN {DispatchLoop(o, s.vms, s.jobs, s.candidates) : o \in Orders(ReadyVms(s.vms))}

\* ------------------------------------------------------------------------
\* The simulation run: OrchestratorSimulation(...).run(0)
\* ------------------------------------------------------------------------
NoArgs == <<[kind |-> "none", dict |-> NoKw, pairs |-> <<>>], NoKw>>

\* OrchestratorSimulation.__init__: the table holds the cluster nodes
InitialVms(size) == [v \in ClusterNodes(size) |-> ClusterVm(v)]

Init ==
  /\ max_vms \in 1..MaxVmsBound
  /\ max_delta \in MaxDeltaChoices
  /\ max_idle \in MaxIdleChoices
  /\ startup_delay \in 1..MaxStartupDelay
  /\ cluster_size \in 0..MaxClusterSize
  /\ vm_start_timeout = SimStartTimeout(startup_delay)
  /\ vms = InitialVms(cluster_size)
  /\ jobs = [j \in {} |-> 0]
  /\ candidates = <<>>
  /\ cycle = 0
  /\ pc = "before"
  /\ started = 0
  /\ stopped = 0
  /\ batchsys = [j \in JobIds |-> "FUTURE"]
  /\ stop_requests = {}
  /\ cloud_stops = {}
  /\ last_error = "none"
  /\ args = NoArgs
  /\ built = NoKw

\* OrchestratorSimulation.before: leave when no job is left, else report.
\* Only the first MaxCycle cycles of run(0) are explored.
BeforeIgnoresFuture ==
  /\ pc = "before"
  /\ cycle < MaxCycle
  /\ IF Cardinality(DOMAIN jobs) = 0
       THEN pc' = "exited"
       ELSE pc' = "update_job_status"
  /\ started' = 0
  /\ stopped' = 0
  /\ last_error' = "none"
  /\ stop_requests' = {}
  /\ UNCHANGED <<config, vms, jobs, candidates, cycle, batchsys, cloud_stops, args, built>>

Before ==
  /\ pc = "before"
  /\ cycle < MaxCycle
  /\ IF Cardinality(DOMAIN jobs) = 0 /\ Cardinality(future_jobs(batchsys)) = 0
       THEN pc' = "exited"
       ELSE pc' = "update_job_status"
  /\ started' = 0
  /\ stopped' = 0
  /\ last_error' = "none"
  /\ stop_requests' = {}
  /\ UNCHANGED <<config, vms, jobs, candidates, cycle, batchsys, cloud_stops, args, built>>

\* OrchestratorSimulation.update_job_status, on the report the batch
\* system gives at this poll
\* the poll at which `n` more jobs have been submitted and the jobs in
\* `finished` have ended
Poll(n, finished) ==
  /\ pc = "update_job_status"
  /\ batchsys' = BatchSysAdvance(batchsys, n, finished)
  /\ \E r \in UpdateJobStatus(vms, jobs, batchsys', startup_delay) :
       /\ vms' = r.vms
       /\ jobs' = r.jobs
       /\ candidates' = r.candidates
  /\ pc' = "scale_out"
  /\ UNCHANGED <<config, cycle, started, stopped, stop_requests, cloud_stops, api>>

RunningJobs == {j \in DOMAIN jobs : jobs[j].state = "RUNNING"}

UpdateJobStatusStep ==
  \E n \in 0..Cardinality(future_jobs(batchsys)), finished \in SUBSET RunningJobs :
    Poll(n, finished)

\* Orchestrator.run, scale-out (spec-modelled: spec.md 4.1 step 5)
CanStart ==
  /\ is_new_vm_needed(candidates, vms)
  /\ started < max_delta
  /\ Cardinality(DOMAIN vms) < max_vms

FreshVmId == CHOOSE v \in CloudVmIds \ DOMAIN vms :
               \A w \in CloudVmIds \ DOMAIN vms : v[2] <= w[2]

ScaleOutStart ==
  /\ pc = "scale_out"
  /\ CanStart
  /\ vms' = (FreshVmId :> SimNewVm(FreshVmId, startup_delay)) @@ vms
  /\ started' = started + 1
  /\ UNCHANGED <<config, jobs, candidates, cycle, pc, stopped, batchsys, stop_requests, cloud_stops, api>>

ScaleOutDone ==
  /\ pc = "scale_out"
  /\ ~CanStart
  /\ pc' = "scale_in"
  /\ UNCHANGED <<config, vms, jobs, candidates, cycle, started, stopped, batchsys,
                 stop_requests, cloud_stops, api>>

\* Orchestrator.run, scale-in (spec-modelled: spec.md 4.1 step 6)
CanStop(v) ==
  /\ v \notin stop_requests
  /\ vms[v].state = "READY"
  /\ can_vm_be_stopped(vms[v], max_idle)
  /\ stopped < max_delta

NoneStopping == \A v \in DOMAIN vms : vms[v].state # "STOPPING"

\* the request to the provider: a rejected request changes nothing, an
\* accepted one moves the record to STOPPING
RequestStop(v) ==
  LET r == stop_vm(vms[v])
  IN /\ stop_requests' = stop_requests \cup {v}
     /\ last_error' = r.raised
     /\ cloud_stops' = IF r.told_cloud THEN cloud_stops \cup {v} ELSE cloud_stops
     /\ vms' = IF r.raised = "none" /\ r.result
                 THEN [vms EXCEPT ![v].state = "STOPPING"] ELSE vms
     /\ stopped' = IF r.raised = "none" /\ r.result THEN stopped + 1 ELSE stopped

ScaleInStop ==
  /\ pc = "scale_in"
  /\ NoneStopping
  /\ \E v \in DOMAIN vms : CanStop(v) /\ RequestStop(v)
  /\ UNCHANGED <<config, jobs, candidates, cycle, pc, started, batchsys, args, built>>

\* the stop is confirmed: the record leaves the table
ScaleInRemove ==
  /\ pc = "scale_in"
  /\ \E v \in DOMAIN vms :
       /\ vms[v].state = "STOPPING"
       /\ vms' = [w \in DOMAIN vms \ {v} |-> vms[w]]
  /\ UNCHANGED <<config, jobs, candidates, cycle, pc, started, stopped, batchsys,
                 stop_requests, cloud_stops, api>>

\* start timeout (spec-modelled: spec.md 4.2, 7): a VM still STARTING
\* more than vm_start_timeout cycles after it was started
TimedOutNever(vm, timeout) == FALSE

TimedOut(vm, timeout) == vm.state = "STARTING" /\ vm.passes > timeout

ScaleInDone ==
  /\ pc = "scale_in"
  /\ NoneStopping
  /\ \A v \in DOMAIN vms : ~CanStop(v)
  /\ \A v \in DOMAIN vms : ~TimedOut(vms[v], vm_start_timeout)
  /\ pc' = "after"
  /\ UNCHANGED <<config, vms, jobs, candidates, cycle, started, stopped, batchsys,
                 stop_requests, cloud_stops, api>>

\* idle accounting (spec-modelled: spec.md 3, idleCounter): a READY VM
\* without jobs has been idle one more cycle, one with jobs is not idle.
\* The counter saturates one above the threshold it is compared with.
CountIdle(vm, maxIdle) ==
  IF vm.state # "READY" THEN vm
  ELSE IF vm.jobs = {} THEN [vm EXCEPT !.last_idle = Min(@ + 1, maxIdle + 1)]
  ELSE [vm EXCEPT !.last_idle = 0]

\* the after-hook (a no-op here) and `self.cycle += 1`
EndCycle ==
  /\ pc = "after"
  /\ vms' = [v \in DOMAIN vms |-> CountIdle(vms[v], max_idle)]
  /\ cycle' = cycle + 1
  /\ pc' = "before"
  /\ UNCHANGED <<config, jobs, candidates, started, stopped, batchsys, stop_requests, cloud_stops, api>>

Next ==
  \/ Before
  \/ UpdateJobStatusStep
  \/ ScaleOutStart
  \/ ScaleOutDone
  \/ ScaleInStop
  \/ ScaleInRemove
  \/ ScaleInDone
  \/ EndCycle

Spec == Init /\ [][Next]_vars

\* ------------------------------------------------------------------------
\* The same run, in which scale-in may also ask the provider to stop a
\* cluster node (the request stop_vm guards against), once per cycle.  The
\* options that do not bear on the request are fixed.
\* ------------------------------------------------------------------------
InitStop ==
  /\ Init
  /\ max_vms = 1 /\ max_delta = 1 /\ max_idle = 0 /\ startup_delay = 1

StopPermanent ==
  /\ pc = "scale_in"
  /\ NoneStopping
  /\ \E v \in DOMAIN vms :
       vms[v].ever_running /\ stop_requests = {} /\ RequestStop(v)
  /\ UNCHANGED <<config, jobs, candidates, cycle, pc, started, batchsys, args, built>>

NextStop ==
  \/ Next
  \/ StopPermanent

SpecStop == InitStop /\ [][NextStop]_vars

\* ------------------------------------------------------------------------
\* The same run of an orchestrator constructed with a start timeout that
\* may be shorter than the startup delay.  (With the timeout __init__
\* passes, SimStartTimeout, every started VM is READY before the timeout
\* expires, and the step below never happens.)
\* ------------------------------------------------------------------------
InitTimeout ==
  /\ max_vms \in 1..MaxVmsBound
  /\ max_delta = 1
  /\ max_idle = 0
  /\ startup_delay = MaxStartupDelay
  /\ cluster_size \in 0..MaxClusterSize
  /\ vm_start_timeout \in 1..MaxStartTimeout
  /\ vms = InitialVms(cluster_size)
  /\ jobs = [j \in {} |-> 0]
  /\ candidates = <<>>
  /\ cycle = 0
  /\ pc = "before"
  /\ started = 0
  /\ stopped = 0
  /\ batchsys = [j \in JobIds |-> "FUTURE"]
  /\ stop_requests = {}
  /\ cloud_stops = {}
  /\ last_error = "none"
  /\ args = NoArgs
  /\ built = NoKw

\* the provisioning failure (spec-modelled: spec.md 4.2, 7): a best-effort
\* stop request, the record goes to STOPPING and is removed with the
\* confirmed stops; the failure is reported, the cycle goes on
StartTimeout ==
  /\ pc = "scale_in"
  /\ \E v \in DOMAIN vms :
       /\ TimedOut(vms[v], vm_start_timeout)
       /\ LET r == stop_vm(vms[v])
          IN cloud_stops' = IF r.told_cloud THEN cloud_stops \cup {v} ELSE cloud_stops
       /\ vms' = [vms EXCEPT ![v].state = "STOPPING"]
  /\ last_error' = "ProvisioningTimeout"
  /\ UNCHANGED <<config, jobs, candidates, cycle, pc, started, stopped, batchsys,
                 stop_requests, args, built>>

NextTimeout ==
  \/ Next
  \/ StartTimeout

SpecTimeout == InitTimeout /\ [][NextTimeout]_vars

\* ------------------------------------------------------------------------
\* The run to its end: every cycle is explored, the cycle counter telling
\* the first cycle (0) from the later ones (1) only.  The trace replayed is finite; every
\* job of it is submitted when its time has come and ends when it has run
\* for its duration, so the polls that report a submission, and those
\* that report the end of a job, cannot be put off for ever.  The options
\* that do not bear on termination are fixed.
\* ------------------------------------------------------------------------
InitFair ==
  /\ Init
  /\ max_vms \in {1, 2} /\ cluster_size \in {0, 1}
  /\ max_delta = 1 /\ max_idle = 0 /\ startup_delay = 1

EndCycleFair ==
  /\ pc = "after"
  /\ vms' = [v \in DOMAIN vms |-> CountIdle(vms[v], max_idle)]
  /\ cycle' = Min(cycle + 1, 1)
  /\ pc' = "before"
  /\ UNCHANGED <<config, jobs, candidates, started, stopped, batchsys, stop_requests, cloud_stops, api>>

NextFair ==
  \/ Before
  \/ UpdateJobStatusStep
  \/ ScaleOutStart
  \/ ScaleOutDone
  \/ ScaleInStop
  \/ ScaleInRemove
  \/ ScaleInDone
  \/ EndCycleFair

\* a poll that reports a job newly submitted; a poll that reports a job ended
Submission ==
  \E n \in 1..Cardinality(future_jobs(batchsys)), finished \in SUBSET RunningJobs :
    Poll(n, finished)
Completion ==
  \E n \in 0..Cardinality(future_jobs(batchsys)), finished \in (SUBSET RunningJobs) \ {{}} :
    Poll(n, finished)

SpecFair ==
  /\ InitFair
  /\ [][NextFair]_vars
  /\ WF_vars(NextFair)
  /\ SF_vars(Submission)
  /\ SF_vars(Completion)

\* ------------------------------------------------------------------------
\* The run on a batch system that has no last job (spec-modelled:
\* spec.md 6, BatchSystem port): an id that has left the report may come
\* to stand for a further job, submitted later than every job then
\* known.  The candidates are kept in the order in which they were
\* added, which for the jobs of a finite trace is the order of
\* Candidates; pop() takes the one added last.
\* ------------------------------------------------------------------------
InSeq(x, seq) == \E i \in 1..Len(seq) : seq[i] = x

CandidatesByArrival(old, jobtable, table) ==
  LET now == {j \in DOMAIN jobtable :
                /\ jobtable[j].state = "PENDING"
                /\ is_cloud_candidate(jobtable[j])
                /\ \A v \in DOMAIN table : j \notin table[v].jobs}
      kept(j) == j \in now
  IN SelectSeq(old, kept) \o SortedSeq({j \in now : ~InSeq(j, old)})

UpdateJobStatusByArrival(table, jobtable, cands, bs, delay) ==
  LET j1 == MergeJobs(jobtable, bs)
      v1 == ReleaseJobs(table, j1)
      c1 == CandidatesByArrival(cands, j1, v1)
      v2 == [v \in DOMAIN v1 |-> CountPass(Countdown(v1[v]), delay)]
  IN {DispatchLoop(o, v2, j1, c1) : o \in Orders(ReadyVms(v2))}

PollByArrival(n, finished) ==
  /\ pc = "update_job_status"
  /\ batchsys' = BatchSysAdvance(batchsys, n, finished)
  /\ \E r \in UpdateJobStatusByArrival(vms, jobs, candidates, batchsys', startup_delay) :
       /\ vms' = r.vms
       /\ jobs' = r.jobs
       /\ candidates' = r.candidates
  /\ pc' = "scale_out"
  /\ UNCHANGED <<config, cycle, started, stopped, stop_requests, cloud_stops, api>>

UpdateJobStatusByArrivalStep ==
  \E n \in 0..Cardinality(future_jobs(batchsys)), finished \in SUBSET RunningJobs :
    PollByArrival(n, finished)

\* a further job of the batch system takes an id no longer in use
FurtherJob ==
  /\ pc = "after"
  /\ \E j \in JobIds :
       /\ batchsys[j] = "GONE"
       /\ j \notin DOMAIN jobs
       /\ batchsys' = [batchsys EXCEPT ![j] = "FUTURE"]
  /\ UNCHANGED <<config, vms, jobs, candidates, cycle, pc, started, stopped,
                 stop_requests, cloud_stops, api>>

NextArrivals ==
  \/ Before
  \/ UpdateJobStatusByArrivalStep
  \/ ScaleOutStart
  \/ ScaleOutDone
  \/ ScaleInStop
  \/ ScaleInRemove
  \/ ScaleInDone
  \/ EndCycleFair
  \/ FurtherJob

SubmissionByArrival ==
  \E n \in 1..Cardinality(future_jobs(batchsys)), finished \in SUBSET RunningJobs :
    PollByArrival(n, finished)
CompletionByArrival ==
  \E n \in 0..Cardinality(future_jobs(batchsys)), finished \in (SUBSET RunningJobs) \ {{}} :
    PollByArrival(n, finished)

\* the loop runs on; submitted jobs are reported; running jobs end
SpecArrivals ==
  /\ InitFair
  /\ [][NextArrivals]_vars
  /\ WF_vars(NextArrivals)
  /\ SF_vars(SubmissionByArrival)
  /\ SF_vars(CompletionByArrival)

\* ------------------------------------------------------------------------
\* The same run with ports that may fail (spec-modelled: spec.md 4.5, 5
\* and 7, TransientPortFailure).  The ports of the simulation never fail;
\* here the poll of the batch system and the stop request to the provider
\* may, and the failure is kept to the call that failed.
\* ------------------------------------------------------------------------
\* a failed poll taken for an empty report
UpdateJobStatusEmptied(table, jobtable, delay) ==
  UpdateJobStatus(table, jobtable, [j \in JobIds |-> "GONE"], delay)

\* update_job_status when the poll failed: the job table is not merged
\* and stays as it was; the rest of the method runs on it
UpdateJobStatusStale(table, jobtable, delay) ==
  LET v1 == ReleaseJobs(table, jobtable)
      c1 == Candidates(jobtable, v1)
      v2 == [v \in DOMAIN v1 |-> CountPass(Countdown(v1[v]), delay)]
  IN {DispatchLoop(o, v2, jobtable, c1) : o \in Orders(ReadyVms(v2))}

PollFails ==
  /\ pc = "update_job_status"
  /\ \E r \in UpdateJobStatusStale(vms, jobs, startup_delay) :
       /\ vms' = r.vms
       /\ jobs' = r.jobs
       /\ candidates' = r.candidates
  /\ pc' = "scale_out"
  /\ last_error' = "TransientPortFailure"
  /\ UNCHANGED <<config, cycle, started, stopped, batchsys, stop_requests, cloud_stops,
                 args, built>>

\* the stop request fails or times out: the record stays as it is and is
\* not asked about again in this cycle
StopFails ==
  /\ pc = "scale_in"
  /\ NoneStopping
  /\ \E v \in DOMAIN vms : CanStop(v) /\ stop_requests' = stop_requests \cup {v}
  /\ last_error' = "TransientPortFailure"
  /\ UNCHANGED <<config, vms, jobs, candidates, cycle, pc, started, stopped, batchsys,
                 cloud_stops, args, built>>

NextPortFailure ==
  \/ Next
  \/ PollFails
  \/ StopFails

SpecPortFailure == InitFair /\ [][NextPortFailure]_vars

\* ------------------------------------------------------------------------
\* Construction of one VM record from arbitrary arguments, stored in the
\* table under its id as __init__ does with the cluster nodes
\* ------------------------------------------------------------------------
Dicts == UNION {[D -> AttrValues] : D \in SUBSET AttrNames}
PairSeqs == UNION {[1..n -> AttrNames \X AttrValues] : n \in 0..MaxPairs}
Initializers ==
  {[kind |-> "none", dict |-> NoKw, pairs |-> <<>>]}
    \cup {[kind |-> "dict", dict |-> d, pairs |-> <<>>] : d \in Dicts}
    \cup {[kind |-> "pairs", dict |-> NoKw, pairs |-> p] : p \in PairSeqs}

InitVmInfo ==
  /\ max_vms = 1 /\ max_delta = 1 /\ max_idle = 0
  /\ startup_delay = 1 /\ cluster_size = 0
  /\ vm_start_timeout = SimStartTimeout(1)
  /\ vms = InitialVms(0)
  /\ jobs = [j \in {} |-> 0]
  /\ candidates = <<>>
  /\ cycle = 0
  /\ pc = "construct"
  /\ started = 0
  /\ stopped = 0
  /\ batchsys = [j \in JobIds |-> "FUTURE"]
  /\ stop_requests = {}
  /\ cloud_stops = {}
  /\ last_error = "none"
  /\ args \in Initializers \X Dicts
  /\ built = NoKw

\* node = VmInfo(...); self.vms[node.vmid] = node.  Reading an attribute
\* that was never set raises AttributeError.
ConstructVm ==
  /\ pc = "construct"
  /\ LET r == VmInfo(args[1], args[2])
         stored == r.raised = "none" /\ "vmid" \in DOMAIN r.value
     IN /\ last_error' = IF r.raised = "none" /\ ~stored THEN "AttributeError" ELSE r.raised
        /\ built' = r.value
        /\ vms' = IF stored THEN (r.value.vmid :> r.value) @@ vms ELSE vms
  /\ pc' = "constructed"
  /\ UNCHANGED <<config, jobs, candidates, cycle, started, stopped, batchsys,
                 stop_requests, cloud_stops, args>>

NextVmInfo == ConstructVm

SpecVmInfo == InitVmInfo /\ [][NextVmInfo]_vars

TypeOK ==
  /\ pc \in {"before", "update_job_status", "scale_out", "scale_in", "after", "exited"}
  /\ \A v \in DOMAIN vms : vms[v].state \in {"STARTING", "READY", "STOPPING"}
  /\ \A j \in DOMAIN jobs : jobs[j].state \in {"PENDING", "RUNNING", "DONE"}

\* ------------------------------------------------------------------------
\* Properties
\* ------------------------------------------------------------------------
Permanent(v) == v \in DOMAIN vms /\ vms[v].ever_running
AfterRefresh == pc = "scale_out"

\* C1: no job id is in the jobs set of two different VM records at the
\* same time, whatever the batch system reports and in whatever order the
\* READY VMs are served.
C1_NoDoubleDispatch ==
  \A v, w \in DOMAIN vms : v # w => vms[v].jobs \cap vms[w].jobs = {}

\* A refresh has just run in a cycle after the first.  Cluster node v was
\* busy when the previous cycle ended (its idle counter is 0) and no job
\* ended since, so it has held its job j since an earlier cycle, while
\* the batch system still reports j as pending; cluster node w was idle
\* then and was given another job by this refresh.
C1_Witness ==
  /\ AfterRefresh
  /\ cycle >= 1
  /\ \A j \in DOMAIN jobs : jobs[j].state # "DONE"
  /\ \E v, w \in DOMAIN vms :
       /\ v # w
       /\ vms[v].ever_running /\ vms[w].ever_running
       /\ vms[v].last_idle = 0 /\ vms[w].last_idle >= 1
       /\ vms[v].jobs # {} /\ vms[w].jobs # {}
       /\ \A j \in vms[v].jobs : batchsys[j] = "PENDING"

\* C2 (as stated): the table never holds more than max_vms records, the
\* nodes put there at construction included.
C2_LenVmsWithinMaxVms == Cardinality(DOMAIN vms) <= max_vms

\* C2 (amended): the table never holds more records than the larger of
\* max_vms and the number of cluster nodes put there at construction.
C2_LenVmsWithinMaxVmsOrCluster ==
  Cardinality(DOMAIN vms) <= Max(max_vms, cluster_size)

\* scale-out has filled the table up to max_vms and is held back by
\* that limit alone
C2_Witness ==
  /\ pc = "scale_in"
  /\ cluster_size < max_vms
  /\ Cardinality(DOMAIN vms) = max_vms
  /\ is_new_vm_needed(candidates, vms)
  /\ started < max_delta

\* C3: within a cycle the VMs started plus the VMs stopped do not exceed
\* max_delta.
C3_ActionsWithinMaxDelta == started + stopped <= max_delta

\* the budget is what ends scale-out: more VMs are needed and allowed
C3_Witness ==
  /\ pc = "scale_in"
  /\ started = max_delta
  /\ is_new_vm_needed(candidates, vms)
  /\ Cardinality(DOMAIN vms) < max_vms

\* C4: a record with ever_running set can never be stopped: the policy
\* refuses it in every state, and every cluster node stays in the table,
\* READY.
C4_PermanentNeverStopped ==
  /\ \A v \in DOMAIN vms : vms[v].ever_running => ~can_vm_be_stopped(vms[v], max_idle)
  /\ \A v \in ClusterNodes(cluster_size) :
       v \in DOMAIN vms /\ vms[v].ever_running /\ vms[v].state = "READY"

\* scale-in looks at a cluster node that is idle beyond the threshold
C4_Witness ==
  /\ pc = "scale_in"
  /\ \E v \in DOMAIN vms :
       vms[v].ever_running /\ vms[v].jobs = {} /\ vms[v].last_idle > max_idle

\* C5: a request to stop a cluster node is refused with an AssertionError:
\* the step that makes the request leaves the table, the stop budget and
\* the position in the cycle as they were and does not reach the
\* provider; and the run goes on afterwards.
StopRefusedStep ==
  \A v \in stop_requests' \ stop_requests :
    vms[v].ever_running =>
      /\ last_error' = "AssertionError"
      /\ vms' = vms
      /\ cloud_stops' = cloud_stops
      /\ stopped' = stopped
      /\ pc' = pc

C5_StopOfPermanentRefused ==
  /\ [][StopRefusedStep]_vars
  /\ []((last_error = "AssertionError" /\ cycle < MaxCycle) => ENABLED Next)

\* the stop of a cluster node was refused in a cycle that has since run
\* to its end
C5_Witness ==
  /\ pc = "before"
  /\ cycle >= 1
  /\ last_error = "AssertionError"
  /\ \E v \in stop_requests : Permanent(v) /\ vms[v].state = "READY"

\* whether the arguments of a construction name the attribute `vmid`
GivesId(a) ==
  \/ "vmid" \in DOMAIN a[2]
  \/ a[1].kind = "dict" /\ "vmid" \in DOMAIN a[1].dict
  \/ a[1].kind = "pairs" /\ \E i \in 1..Len(a[1].pairs) : a[1].pairs[i][1] = "vmid"

\* C6: constructing a VM record without an id fails with an
\* AssertionError, and no record enters the table.
C6_NoIdNoRecord ==
  (pc = "constructed" /\ ~GivesId(args)) =>
    /\ last_error = "AssertionError"
    /\ built = NoKw
    /\ DOMAIN vms = {}

\* the call of test_required_attributes, VmInfo(()), has failed; so has a
\* call that gives other attributes but no id
C6_Witness ==
  /\ pc = "constructed"
  /\ last_error = "AssertionError"
  /\ \/ args[1].kind = "pairs" /\ args[1].pairs = <<>> /\ args[2] = NoKw
     \/ args[1].kind = "dict" /\ DOMAIN args[1].dict = {"state", "nodename"}

\* One step of a record's life: it keeps its state, or moves from STARTING
\* to READY or from READY to STOPPING; it leaves the table only from
\* STOPPING, after the provider took the stop; it enters the table only
\* in scale-out, in state STARTING.
VmLifecycleStep ==
  /\ \A v \in (DOMAIN vms) \cap (DOMAIN vms') :
       \/ vms'[v].state = vms[v].state
       \/ vms[v].state = "STARTING" /\ vms'[v].state = "READY"
       \/ vms[v].state = "READY" /\ vms'[v].state = "STOPPING"
  /\ \A v \in (DOMAIN vms) \ (DOMAIN vms') :
       vms[v].state = "STOPPING" /\ v \in cloud_stops
  /\ \A v \in (DOMAIN vms') \ (DOMAIN vms) :
       vms'[v].state = "STARTING" /\ pc = "scale_out"

\* C7 (as stated): every record starts its life in STARTING and then only
\* moves along STARTING -> READY -> STOPPING -> removed.
C7_LifecycleFromStarting ==
  /\ \A v \in DOMAIN vms : vms[v].state = "STARTING"
  /\ [][VmLifecycleStep]_vars

\* C7 (amended): the cluster nodes are in the table from construction, in
\* state READY; every other record is created by new_vm in STARTING, and
\* all records only move along STARTING -> READY -> STOPPING -> removed.
C7_LifecycleFromConstruction ==
  /\ \A v \in DOMAIN vms : vms[v].ever_running /\ vms[v].state = "READY"
  /\ [][VmLifecycleStep]_vars

\* a started VM has been through STARTING and READY and is now STOPPING,
\* the provider having taken the stop
C7_Witness ==
  \E v \in DOMAIN vms :
    /\ ~vms[v].ever_running
    /\ vms[v].state = "STOPPING"
    /\ vms[v].passes > startup_delay
    /\ v \in cloud_stops

\* C8: a job's state only advances PENDING -> RUNNING -> DONE; a job
\* becomes RUNNING only in the dispatch, on a READY VM that then holds
\* this job alone; a job that left the table does not come back; a refresh
\* never takes a RUNNING or DONE job back to PENDING.
JobLifecycleStep ==
  /\ \A j \in (DOMAIN jobs) \cap (DOMAIN jobs') :
       Rank(jobs'[j].state) >= Rank(jobs[j].state)
  /\ \A j \in (DOMAIN jobs') \ (DOMAIN jobs) : batchsys[j] = "FUTURE"
  /\ \A j \in DOMAIN jobs' :
       (jobs'[j].state = "RUNNING" /\ (j \in DOMAIN jobs => jobs[j].state = "PENDING"))
         => /\ pc = "update_job_status"
            /\ \E v \in DOMAIN vms' :
                 /\ vms'[v].state = "READY"
                 /\ vms'[v].jobs = {j}
                 /\ jobs'[j].exec_node_name = vms'[v].nodename
                 /\ \A w \in DOMAIN vms' : j \in vms'[w].jobs => w = v

C8_JobStateOnlyAdvances == [][JobLifecycleStep]_vars

\* A refresh has just run in a cycle after the first, and no job ended.
\* Cluster node v was busy when the previous cycle ended, so its job j was
\* RUNNING before this refresh; the batch system reported j as pending to
\* this refresh and j is still RUNNING.
C8_Witness ==
  /\ AfterRefresh
  /\ cycle >= 1
  /\ \A j \in DOMAIN jobs : jobs[j].state # "DONE"
  /\ \E v \in DOMAIN vms :
       /\ vms[v].ever_running
       /\ vms[v].last_idle = 0
       /\ \E j \in vms[v].jobs : batchsys[j] = "PENDING" /\ jobs[j].state = "RUNNING"

\* What the claims compare of two results of the refresh: the VMs'
\* states, idle counters and jobs, the job table and the candidates.
Visible(table) ==
  [v \in DOMAIN table |->
     [state |-> table[v].state, last_idle |-> table[v].last_idle, jobs |-> table[v].jobs]]

SameAsNow(r) ==
  /\ Visible(r.vms) = Visible(vms)
  /\ r.jobs = jobs
  /\ r.candidates = candidates

\* C9 (as stated): right after the refresh, running it once more on the
\* same report of the batch system changes nothing.
C9_RefreshIdempotent ==
  AfterRefresh =>
    \A r \in UpdateJobStatus(vms, jobs, batchsys, startup_delay) : SameAsNow(r)

\* C9 (amended): right after the refresh, running it once more on the same
\* report changes nothing provided no VM is STARTING.
C9_RefreshIdempotentUnlessStarting ==
  (AfterRefresh /\ \A v \in DOMAIN vms : vms[v].state # "STARTING") =>
    \A r \in UpdateJobStatus(vms, jobs, batchsys, startup_delay) : SameAsNow(r)

\* the refresh ran with no VM STARTING, and left a job RUNNING on a
\* started VM, a job waiting and a job reported DONE
C9_Witness ==
  /\ AfterRefresh
  /\ \A v \in DOMAIN vms : vms[v].state # "STARTING"
  /\ candidates # <<>>
  /\ \E v \in DOMAIN vms : ~vms[v].ever_running /\ vms[v].jobs # {}
  /\ \E j \in DOMAIN jobs : jobs[j].state = "DONE"

\* C10: a VM started with last_idle = -startup_delay is READY once it has
\* been through startup_delay passes of the refresh, and not before.
C10_ReadyAfterStartupDelay ==
  \A v \in DOMAIN vms :
    (~vms[v].ever_running /\ vms[v].state \in {"STARTING", "READY"})
      => (vms[v].state = "READY" <=> vms[v].passes >= startup_delay)

\* A started VM that is READY and has no job.
IdleStarted(v) ==
  /\ vms[v].state = "READY"
  /\ ~vms[v].ever_running
  /\ vms[v].jobs = {}

\* the policy accepts such a VM exactly when its idle counter is strictly
\* above max_idle
PolicyAtThreshold ==
  \A v \in DOMAIN vms :
    IdleStarted(v) => (can_vm_be_stopped(vms[v], max_idle) <=> vms[v].last_idle > max_idle)

\* Scale-in moves to STOPPING only an idle started VM above the threshold,
\* while the stop budget lasts, with a request the provider takes; and it
\* ends only when no such VM is left or the budget is used up.
StopWhenIdleStep ==
  /\ \A v \in (DOMAIN vms) \cap (DOMAIN vms') :
       (vms[v].state = "READY" /\ vms'[v].state = "STOPPING") =>
         /\ pc = "scale_in"
         /\ IdleStarted(v)
         /\ vms[v].last_idle > max_idle
         /\ stopped < max_delta
         /\ v \in cloud_stops'
  /\ (pc = "scale_in" /\ pc' = "after") =>
       \A v \in DOMAIN vms :
         (IdleStarted(v) /\ vms[v].last_idle > max_idle) => stopped >= max_delta

\* C11: for a READY started VM without jobs can_vm_be_stopped is true as
\* soon as the idle counter is strictly above max_idle and false up to
\* there; the scale-in of the cycle that follows stops every such VM the
\* budget allows, moving it to STOPPING.
C11_IdleVmStopped == []PolicyAtThreshold /\ [][StopWhenIdleStep]_vars

\* with max_idle = 1 a started VM stayed READY while its idle counter was 1
\* and is STOPPING now that the counter is 2, the provider having taken
\* the stop
C11_Witness ==
  /\ pc = "scale_in"
  /\ max_idle = 1
  /\ \E v \in DOMAIN vms :
       /\ ~vms[v].ever_running /\ vms[v].state = "STOPPING"
       /\ vms[v].jobs = {}
       /\ vms[v].last_idle > max_idle /\ v \in cloud_stops

\* When scale-in has ended, no VM is left that is still STARTING more than
\* vm_start_timeout cycles after its start, and none is left STOPPING.
TimedOutRemoved ==
  pc \in {"after", "before", "update_job_status"} =>
    \A v \in DOMAIN vms :
      /\ ~(vms[v].state = "STARTING" /\ vms[v].passes > vm_start_timeout)
      /\ vms[v].state # "STOPPING"

\* A VM leaves STARTING for STOPPING only when timed out and with a stop
\* request made to the provider; no step loses a waiting job: a candidate
\* stays a candidate until it is RUNNING.
TimeoutStep ==
  /\ \A v \in (DOMAIN vms) \cap (DOMAIN vms') :
       (vms[v].state = "STARTING" /\ vms'[v].state = "STOPPING") =>
         /\ vms[v].passes > vm_start_timeout
         /\ v \in cloud_stops'
         /\ last_error' = "ProvisioningTimeout"
         /\ <<jobs, candidates, cycle, pc>>' = <<jobs, candidates, cycle, pc>>
  /\ \A i \in 1..Len(candidates) :
       \/ \E k \in 1..Len(candidates') : candidates'[k] = candidates[i]
       \/ candidates[i] \in DOMAIN jobs' /\ jobs'[candidates[i]].state = "RUNNING"

\* C12: a VM still STARTING after more than vm_start_timeout cycles is
\* sent a stop request and removed in that cycle's scale-in; the run is
\* not blocked by it; the waiting jobs remain candidates, so that
\* is_new_vm_needed sees them again in the cycle that follows.
C12_StartTimeoutRecovered ==
  /\ []TimedOutRemoved
  /\ [][TimeoutStep]_vars
  /\ []((last_error = "ProvisioningTimeout" /\ cycle < MaxCycle) => ENABLED NextTimeout)

\* the refresh of a later cycle has run: the VM that timed out is gone
\* (no started VM ever got READY with this timeout), the jobs are
\* candidates and a new VM is needed for them
C12_Witness ==
  /\ AfterRefresh
  /\ vm_start_timeout < startup_delay
  /\ cloud_stops # {}
  /\ \A v \in DOMAIN vms : vms[v].ever_running
  /\ candidates # <<>>
  /\ is_new_vm_needed(candidates, vms)

\* The before-hook ends the run exactly when the job table is empty and no
\* job of the trace is still to come, without an error and leaving tables
\* and cycle counter as they are; once ended, the run takes no further
\* step.
ExitStep ==
  /\ pc # "exited"
  /\ pc = "before" =>
       (pc' = "exited" <=> (DOMAIN jobs = {} /\ future_jobs(batchsys) = {}))
  /\ pc' = "exited" =>
       /\ pc = "before"
       /\ last_error' = "none"
       /\ <<vms, jobs, candidates, cycle>>' = <<vms, jobs, candidates, cycle>>

NeededAboveTwice ==
  is_new_vm_needed(candidates, vms) <=> Len(candidates) > 2 * Cardinality(DOMAIN vms)

\* a record enters the table only in scale-out, in state STARTING, and
\* only when the candidates were more than twice the records
StartedWhenNeededStep ==
  \A v \in (DOMAIN vms') \ (DOMAIN vms) :
    /\ pc = "scale_out"
    /\ Len(candidates) > 2 * Cardinality(DOMAIN vms)
    /\ vms'[v].state = "STARTING"

\* C14: is_new_vm_needed is true exactly when len(candidates) is strictly
\* greater than twice len(vms), cluster nodes included, and scale-out
\* creates a STARTING VM only when it is true.
C14_NewVmWhenNeeded == []NeededAboveTwice /\ [][StartedWhenNeededStep]_vars

\* with one record in the table, a VM started in an earlier cycle, three
\* candidates made scale-out start a second VM; with two records the
\* policy now says no
C14_Witness ==
  /\ pc = "scale_out"
  /\ Len(candidates) = 3
  /\ started = 1
  /\ Cardinality(DOMAIN vms) = 2
  /\ ~is_new_vm_needed(candidates, vms)
  /\ \E v, w \in DOMAIN vms :
       /\ ~vms[v].ever_running /\ vms[v].state = "STARTING" /\ vms[v].passes = 0
       /\ vms[w].passes >= 1

\* a VM that is given a job by a step has idle counter 0 after the step
DispatchResetsIdleStep ==
  \A v \in (DOMAIN vms) \cap (DOMAIN vms') :
    (vms'[v].jobs \ vms[v].jobs # {}) => vms'[v].last_idle = 0

\* C15: whenever the dispatch gives a job to a VM, the VM's idle counter
\* is 0 right after, whatever it was before.
C15_DispatchResetsIdle == [][DispatchResetsIdleStep]_vars

\* C16: no job that is in the jobs set of some VM is among the candidates,
\* also while the batch system goes on reporting the job as pending.
C16_AssignedNotCandidate ==
  \A v \in DOMAIN vms : \A i \in 1..Len(candidates) : candidates[i] \notin vms[v].jobs

\* A refresh has just run in a cycle after the first and no job ended.
\* Cluster node v was busy when the previous cycle ended, its job is still
\* reported as pending, and the refresh found other jobs to be candidates.
C16_Witness ==
  /\ AfterRefresh
  /\ cycle >= 1
  /\ candidates # <<>>
  /\ \A j \in DOMAIN jobs : jobs[j].state # "DONE"
  /\ \E v \in DOMAIN vms :
       /\ vms[v].ever_running
       /\ vms[v].last_idle = 0
       /\ \E j \in vms[v].jobs : batchsys[j] = "PENDING"

\* no candidate waits while a READY VM has no job
NoFreeVmLeft ==
  candidates = <<>> \/ \A v \in DOMAIN vms : vms[v].state = "READY" => vms[v].jobs # {}

\* the jobs a step adds to a VM: at most one, to a READY VM that holds
\* nothing else then; the job is a candidate no longer and is RUNNING on
\* the node of that VM
DispatchOneEachStep ==
  \A v \in (DOMAIN vms) \cap (DOMAIN vms') :
    LET new == vms'[v].jobs \ vms[v].jobs
    IN new # {} =>
         /\ pc = "update_job_status"
         /\ Cardinality(new) = 1
         /\ vms'[v].jobs = new
         /\ vms'[v].state = "READY"
         /\ \A j \in new :
              /\ \A i \in 1..Len(candidates') : candidates'[i] # j
              /\ jobs'[j].state = "RUNNING"
              /\ jobs'[j].exec_node_name = vms'[v].nodename

\* C17: when the dispatch has run, either no candidate is left or no READY
\* VM is without a job; every job it dispatched is off the candidates and
\* RUNNING on the node of its VM; no VM was given more than one job.
C17_DispatchMaximal == []NoFreeVmLeft /\ [][DispatchOneEachStep]_vars

\* the dispatch gave a job each to two READY VMs, one of them started, and
\* a candidate is left over
C17_Witness ==
  /\ AfterRefresh
  /\ candidates # <<>>
  /\ \E v, w \in DOMAIN vms :
       /\ v # w
       /\ ~vms[v].ever_running
       /\ vms[v].state = "READY" /\ vms[w].state = "READY"
       /\ vms[v].jobs # {} /\ vms[w].jobs # {}
       /\ \A j \in vms[v].jobs : jobs[j].exec_node_name = VmNodeName(v)

\* A step in which the poll fails leaves every job record as it was, but
\* for the waiting jobs the dispatch puts on a VM, and every VM record in
\* the table with the jobs it had, in its state or moved from STARTING to
\* READY by the countdown; the cycle goes on to scale-out.  A step in
\* which a stop request fails changes no record and uses no budget.  The
\* before-hook of the next cycle clears the way for the call to be made
\* again.
PortFailureStep ==
  /\ (pc = "update_job_status" /\ last_error' = "TransientPortFailure") =>
       /\ DOMAIN jobs' = DOMAIN jobs
       /\ \A j \in DOMAIN jobs :
            \/ jobs'[j] = jobs[j]
            \/ /\ jobs[j].state = "PENDING" /\ jobs'[j].state = "RUNNING"
               /\ \E v \in DOMAIN vms' : j \in vms'[v].jobs
       /\ DOMAIN vms' = DOMAIN vms
       /\ \A v \in DOMAIN vms :
            /\ vms[v].jobs \subseteq vms'[v].jobs
            /\ \/ vms'[v].state = vms[v].state
               \/ vms[v].state = "STARTING" /\ vms'[v].state = "READY"
       /\ batchsys' = batchsys
       /\ cycle' = cycle
       /\ pc' = "scale_out"
  /\ (pc = "scale_in" /\ stop_requests' # stop_requests
        /\ last_error' = "TransientPortFailure") =>
       /\ <<vms, jobs, candidates, stopped, cloud_stops, cycle, pc>>'
            = <<vms, jobs, candidates, stopped, cloud_stops, cycle, pc>>
  /\ (pc = "before" /\ pc' # "exited") =>
       /\ pc' = "update_job_status"
       /\ stop_requests' = {}
       /\ last_error' = "none"

\* C18: a failed poll or stop request skips only its own update: the
\* records keep their values, no state changes because of the failure,
\* the cycle runs on and is counted, and the next cycle makes the call
\* again.
C18_PortFailureSkipsUpdate ==
  /\ [][PortFailureStep]_vars
  /\ []((last_error = "TransientPortFailure" /\ cycle < MaxCycle) => ENABLED NextPortFailure)

\* a cycle after the first has run to its end in which a stop request
\* failed: the VM is still READY in the table, no stop was counted, no
\* stop reached the provider
C18_Witness ==
  /\ pc = "before"
  /\ cycle >= 2
  /\ last_error = "TransientPortFailure"
  /\ stopped = 0
  /\ cloud_stops = {}
  /\ \E v \in stop_requests :
       v \in DOMAIN vms /\ ~vms[v].ever_running /\ vms[v].state = "READY"
  /\ \E j \in DOMAIN jobs : jobs[j].state = "RUNNING"

\* a VM that holds a job is READY
BusyVmIsReady ==
  \A v \in DOMAIN vms : vms[v].jobs # {} => vms[v].state = "READY"

\* a step gives jobs to READY VMs only, and moves to STOPPING or takes
\* out of the table only VMs without a job
BusyVmKeptStep ==
  \A v \in DOMAIN vms :
    /\ v \notin DOMAIN vms' => vms[v].jobs = {}
    /\ v \in DOMAIN vms' =>
         /\ (vms[v].state # "STOPPING" /\ vms'[v].state = "STOPPING") => vms[v].jobs = {}
         /\ (vms'[v].jobs \ vms[v].jobs # {}) => vms'[v].state = "READY"

\* C19: a VM with a job is READY in every state; jobs are given to READY
\* VMs only; neither scale-in nor the start timeout moves to STOPPING or
\* removes a VM that holds a job.
C19_BusyVmReadyAndKept == []BusyVmIsReady /\ [][BusyVmKeptStep]_vars

\* scale-in has ended and left in the table a started VM that holds a job,
\* though its idle counter is above max_idle
C19_Witness ==
  /\ pc = "after"
  /\ \E v \in DOMAIN vms :
       /\ ~vms[v].ever_running
       /\ vms[v].state = "READY"
       /\ vms[v].jobs # {}
       /\ vms[v].last_idle > max_idle

\* C20: every job that becomes a candidate is eventually RUNNING, also
\* while further jobs keep arriving.
C20_CandidateEventuallyRuns ==
  \A j \in JobIds :
    InSeq(j, candidates) ~> (j \in DOMAIN jobs /\ jobs[j].state = "RUNNING")

====
